---------------------------- MODULE Spec2Model ----------------------------
(***************************************************************************)
(* A model of the procedural island map generator of tower_defense        *)
(* (src/src/map/map_generator.py, class MapGenerator) and of the stages   *)
(* of MapGenerator.generate_map.                                           *)
(*                                                                         *)
(* The grid is a function from cells <<x, y>> to terrain tags; the source  *)
(* indexes it grid[y][x].  The tags are "None" (the cell as generate_map   *)
(* allocates it), "Water", "Grass" and "Sand" (the classes of terrain.py). *)
(*                                                                         *)
(* The random module is an input: a run draws one stream of random values. *)
(* The variable `seed` names the stream of the run, Stream(grid_size, k)   *)
(* for one of the seeds k; the value a call site draws is                  *)
(* Raw(seed, site, i, j), where (i, j) tells the calls of one site apart   *)
(* (the cell of a per-cell draw, the index of a loop).  The draws of       *)
(* random.choice and random.shuffle in the rock selection are free: every  *)
(* combination of RockDraws values each is a step.  Reals are exact        *)
(* rationals: random() is a multiple of 1/UnitDen, an angle is one of the  *)
(* directions of DirCos/DirSin (cosine and sine in fifths).                *)
(* Floating-point rounding is not modelled.                                *)
(*                                                                         *)
(* Spec runs generate_map stage by stage from a constructed generator.     *)
(* SpecSmooth runs the smoothing sweeps alone, from every tagging of a     *)
(* 3 x 3 neighbourhood.                                                    *)
(***************************************************************************)
EXTENDS Integers, Sequences, FiniteSets, TLC

\* the default grid size (src/src/config.py)
DEFAULT_GRID_SIZE == 60

\* ------------------------------------------------------------ bounds
\* grid sizes -1 .. MaxSmallGrid are all explored
MaxSmallGrid == 16
\* each grid size is run with NumSeeds random streams
NumSeeds == 3

\* the flood fill of Stage D is observed every FloodBatch iterations of its loop
FloodBatch == 32

\* larger grids: room for grass away from the beaches, for a lake cut off from the
\* border band, and (the default size) for a desert
LargeGridSizes == {20, DEFAULT_GRID_SIZE}
GridSizes == (-1 .. MaxSmallGrid) \cup LargeGridSizes
Seeds == 0 .. (NumSeeds - 1)
TileSizes == {10}

\* ------------------------------------------------------------ program constants (src/src/config.py)
ROCK_COUNT == 3
LAKE_COUNT_MIN == 1
LAKE_COUNT_MAX == 2
FOREST_COUNT_MIN == 3
FOREST_COUNT_MAX == 5
\* the border band of ocean seeds and of the rock margin
BORDER_MARGIN == 5
\* the smoothing passes of _remove_isolated_tiles
SMOOTH_PASSES == 3
\* the attempts of the desert-centre search
DESERT_ATTEMPTS == 50
\* the half-width of the window searched for water around a desert centre
DESERT_WINDOW == 6

\* ------------------------------------------------------------ arithmetic
Abs(a) == IF a < 0 THEN -a ELSE a
Max(a, b) == IF a >= b THEN a ELSE b
Min(a, b) == IF a <= b THEN a ELSE b

\* Python's int() of the rational a / b (b > 0): truncation toward zero
TruncDiv(a, b) == IF a >= 0 THEN a \div b ELSE -((-a) \div b)

\* math.sqrt(d2) < num / den, for den > 0, decided exactly
SqrtLess(d2, num, den) == num > 0 /\ d2 * den * den < num * num

\* Python's range(a, b)
Range(a, b) == a .. (b - 1)

\* ------------------------------------------------------------ the random stream
\* random() takes the values 0, 1/UnitDen, .., (UnitDen-1)/UnitDen
UnitDen == 4
RawMod == 60
HashMod == 1009

Mix(h, v) == (h * h + 37 * v + 11) % HashMod

\* the raw value, in 0 .. RawMod-1, that the call (site, i, j) draws from stream s
Raw(s, site, i, j) ==
    Mix(Mix(Mix(Mix((s * 131 + site * 17 + 5) % HashMod, i + 64), j + 64), site), s) % RawMod

\* the stream that seed k selects for a grid of size n
Stream(n, k) == 16 * k + n + 1

\* random.random() as a count of 1/UnitDen
Unit(s, site, i, j) == Raw(s, site, i, j) % UnitDen
\* random.randint(a, b)
RandInt(s, site, i, j, a, b) == a + (Raw(s, site, i, j) % (b - a + 1))

\* the directions an angle is drawn from: cosine and sine, in fifths
DirCos == <<5, 4, 3, 0, -3, -4, -5, -4, -3, 0, 3, 4>>
DirSin == <<0, 3, 4, 5, 4, 3, 0, -3, -4, -5, -4, -3>>
\* random.random() * 2 * math.pi: an index into DirCos / DirSin
Angle(s, site, i, j) == 1 + (Raw(s, site, i, j) % 12)
\* random.uniform(0, math.pi): the directions with a sine >= 0
HalfAngle(s, site, i, j) == 1 + (Raw(s, site, i, j) % 7)

\* the call sites of random in map_generator.py (the noise of lake k is drawn
\* at LakeNoise + k)
Site ==
    [IslandNoise |-> 1,
     LakeCount |-> 2,
     LakeAngle |-> 3,
     LakeDistance |-> 4,
     LakeRadius |-> 5,
     LakeNoise |-> 6,
     DesertSize |-> 8,
     DesertAngle |-> 9,
     DesertDistance |-> 10,
     DesertA |-> 11,
     DesertB |-> 12,
     DesertRotation |-> 13,
     DesertNoise |-> 14,
     ForestCount |-> 15,
     ForestAngle |-> 16,
     ForestDistance |-> 17,
     ForestRadius |-> 18,
     TreeChance |-> 19]

\* ------------------------------------------------------------ the grid
Tiles == {"None", "Water", "Grass", "Sand"}

GridCells(n) == Range(0, n) \X Range(0, n)

\* the guard 0 <= nx < self.grid_size and 0 <= ny < self.grid_size
InBounds(n, x, y) == 0 <= x /\ x < n /\ 0 <= y /\ y < n

\* self.grid[y][x], total: "OutOfGrid" for an index outside the grid
Tile(g, x, y) == IF <<x, y>> \in DOMAIN g THEN g[<<x, y>>] ELSE "OutOfGrid"

\* the grid g with the cells of S set to tag t
SetCells(g, S, t) == [c \in DOMAIN g |-> IF c \in S THEN t ELSE g[c]]

\* center_x = center_y = self.grid_size // 2
Center(n) == n \div 2
\* int(self.grid_size * ISLAND_RADIUS_FACTOR), the factor being 0.4
IslandRadius(n) == TruncDiv(2 * n, 5)

Dist2(x, y, cx, cy) == (x - cx) * (x - cx) + (y - cy) * (y - cy)

\* the 3 x 3 block of offsets of a neighbourhood scan
Offsets9 == (-1 .. 1) \X (-1 .. 1)
Offsets8 == Offsets9 \ {<<0, 0>>}
Cardinal4 == {<<0, 1>>, <<1, 0>>, <<0, -1>>, <<-1, 0>>}

\* a scan whose bounds guard is left out
ScanUnguarded(n, x, y, D) == {<<x + d[1], y + d[2]>> : d \in D}

\* the cells a scan around (x, y) over the offsets D indexes: those its bounds
\* guard lets through
Scan(n, x, y, D) == {<<x + d[1], y + d[2]>> : d \in {e \in D : InBounds(n, x + e[1], y + e[2])}}

\* how many of the scanned cells carry tag t
CountTag(g, n, x, y, D, t) == Cardinality({c \in Scan(n, x, y, D) : Tile(g, c[1], c[2]) = t})

\* a scanned cell of the 3 x 3 block around (x, y), the cell included, is Water
NearWater(g, n, x, y) == \E c \in Scan(n, x, y, Offsets9) : Tile(g, c[1], c[2]) = "Water"

\* ------------------------------------------------------------ Stage A: _create_water_base
\* a water base whose outer loop stops one row short
CreateWaterBaseShort(g, n) == [c \in GridCells(n) |-> IF c[2] = n - 1 THEN "None" ELSE "Water"]

CreateWaterBase(g, n) == [c \in GridCells(n) |-> "Water"]

\* ------------------------------------------------------------ Stage B: _create_main_island
\* an island test whose noise is uniform(-2.5, 0.5)
InIslandLowNoise(n, s, x, y) ==
    SqrtLess(Dist2(x, y, Center(n), Center(n)),
             2 * UnitDen * IslandRadius(n) - 5 * UnitDen + 6 * Unit(s, Site.IslandNoise, x, y),
             2 * UnitDen)

\* distance < island_radius + edge_noise, edge_noise = uniform(-1.5, 1.5)
InIsland(n, s, x, y) ==
    SqrtLess(Dist2(x, y, Center(n), Center(n)),
             2 * UnitDen * IslandRadius(n) - 3 * UnitDen + 6 * Unit(s, Site.IslandNoise, x, y),
             2 * UnitDen)

CreateMainIsland(g, n, s) ==
    SetCells(g, {c \in GridCells(n) : InIsland(n, s, c[1], c[2])}, "Grass")

\* ------------------------------------------------------------ Stage C: _add_lakes
NumLakes(s) == RandInt(s, Site.LakeCount, 0, 0, LAKE_COUNT_MIN, LAKE_COUNT_MAX)

\* int(center + distance * cos(angle)), distance = random() * (island_radius * 0.5)
LakeX(n, s, k) ==
    TruncDiv(10 * UnitDen * Center(n)
             + Unit(s, Site.LakeDistance, k, 0) * IslandRadius(n) * DirCos[Angle(s, Site.LakeAngle, k, 0)],
             10 * UnitDen)
LakeY(n, s, k) ==
    TruncDiv(10 * UnitDen * Center(n)
             + Unit(s, Site.LakeDistance, k, 0) * IslandRadius(n) * DirSin[Angle(s, Site.LakeAngle, k, 0)],
             10 * UnitDen)
LakeRadius(s, k) == RandInt(s, Site.LakeRadius, k, 0, 3, 6)

\* the cells of lake k's bounding box, clipped to the grid
LakeBox(n, s, k) ==
    Range(Max(0, LakeX(n, s, k) - LakeRadius(s, k)), Min(n, LakeX(n, s, k) + LakeRadius(s, k) + 1))
    \X Range(Max(0, LakeY(n, s, k) - LakeRadius(s, k)), Min(n, LakeY(n, s, k) + LakeRadius(s, k) + 1))

\* dist_from_lake_center < lake_radius + lake_edge_noise, the noise uniform(-0.3, 0.3)
InLake(n, s, k, x, y) ==
    SqrtLess(Dist2(x, y, LakeX(n, s, k), LakeY(n, s, k)),
             10 * UnitDen * LakeRadius(s, k) - 3 * UnitDen + 6 * Unit(s, Site.LakeNoise + k, x, y),
             10 * UnitDen)

\* one lake: the Grass cells of its box that fall within the radius become Water
AddLake(g, n, s, k) ==
    SetCells(g, {c \in LakeBox(n, s, k) : InLake(n, s, k, c[1], c[2]) /\ Tile(g, c[1], c[2]) = "Grass"},
             "Water")

RECURSIVE AddLakesFrom(_, _, _, _)
AddLakesFrom(g, n, s, k) ==
    IF k >= NumLakes(s) THEN g ELSE AddLakesFrom(AddLake(g, n, s, k), n, s, k + 1)

AddLakes(g, n, s) == AddLakesFrom(g, n, s, 0)

\* ------------------------------------------------------------ Stage D: _add_consistent_beaches
\* the cells of the grid in the order of "for y in range(n): for x in range(n)"
ScanOrder(n) == IF n <= 0 THEN << >> ELSE [i \in 1 .. (n * n) |-> <<(i - 1) % n, (i - 1) \div n>>]

SeqToSet(q) == {q[i] : i \in DOMAIN q}

\* Water at the edges is ocean
IsEdgeCell(n, x, y) ==
    x < BORDER_MARGIN \/ y < BORDER_MARGIN \/ x >= n - BORDER_MARGIN \/ y >= n - BORDER_MARGIN

\* ocean_tiles before the flood fill: the Water cells of the border band, in scan order
OceanSeeds(g, n) ==
    LET IsSeed(c) == Tile(g, c[1], c[2]) = "Water" /\ IsEdgeCell(n, c[1], c[2])
    IN  SelectSeq(ScanOrder(n), IsSeed)

\* the offsets one flood-fill step visits, in the order of its two loops, the
\* diagonals skipped
FloodOffsets == << <<0, -1>>, <<-1, 0>>, <<0, 0>>, <<1, 0>>, <<0, 1>> >>

\* a flood-fill step without the "not in visited" test
FloodNewRevisits(g, n, seen, x, y) ==
    LET around == [i \in DOMAIN FloodOffsets |-> <<x + FloodOffsets[i][1], y + FloodOffsets[i][2]>>]
        IsWater(c) == InBounds(n, c[1], c[2]) /\ Tile(g, c[1], c[2]) = "Water"
    IN  SelectSeq(around, IsWater)

\* a flood-fill step that does not skip the diagonals
FloodNewDiagonal(g, n, seen, x, y) ==
    LET around == [i \in 1 .. 9 |-> <<x + ((i - 1) % 3) - 1, y + ((i - 1) \div 3) - 1>>]
        IsNew(c) == /\ InBounds(n, c[1], c[2])
                    /\ Tile(g, c[1], c[2]) = "Water"
                    /\ c \notin seen
    IN  SelectSeq(around, IsNew)

\* the cells one flood-fill step around (x, y) appends to the queue and to ocean_tiles
FloodNew(g, n, seen, x, y) ==
    LET around == [i \in DOMAIN FloodOffsets |-> <<x + FloodOffsets[i][1], y + FloodOffsets[i][2]>>]
        IsNew(c) == /\ InBounds(n, c[1], c[2])
                    /\ Tile(g, c[1], c[2]) = "Water"
                    /\ c \notin seen
    IN  SelectSeq(around, IsNew)

\* one iteration of "while queue" on st = (visited, queue, the cells appended to
\* ocean_tiles so far)
FloodPop(g, n, st) ==
    LET new == FloodNew(g, n, st.visited, Head(st.queue)[1], Head(st.queue)[2])
    IN  [visited |-> st.visited \cup SeqToSet(new),
         queue |-> Tail(st.queue) \o new,
         added |-> st.added \o new]

\* k iterations of "while queue", fewer if the queue runs empty
RECURSIVE FloodRun(_, _, _, _)
FloodRun(g, n, st, k) ==
    IF k <= 0 \/ st.queue = << >> THEN st
    ELSE CHOOSE r \in {FloodRun(g, n, popped, k - 1) : popped \in {FloodPop(g, n, st)}} : TRUE

\* lake_tiles without the "not in visited" test
LakeTilesAllWater(g, n, seen) ==
    LET IsWater(c) == Tile(g, c[1], c[2]) = "Water"
    IN  SelectSeq(ScanOrder(n), IsWater)

\* lake_tiles: the Water cells the flood fill did not visit, in scan order
LakeTiles(g, n, seen) ==
    LET IsLake(c) == Tile(g, c[1], c[2]) = "Water" /\ c \notin seen
    IN  SelectSeq(ScanOrder(n), IsLake)

\* a first ring that looks at the N/S/E/W neighbours of an ocean tile only
OceanBeachCandidatesCardinal(g, n, ocean) ==
    UNION {{c \in Scan(n, o[1], o[2], Cardinal4) : Tile(g, c[1], c[2]) = "Grass"} : o \in SeqToSet(ocean)}

\* ocean_beach_candidates: the Grass cells in the 3 x 3 block of an ocean tile
OceanBeachCandidates(g, n, ocean) ==
    UNION {{c \in Scan(n, o[1], o[2], Offsets9) : Tile(g, c[1], c[2]) = "Grass"} : o \in SeqToSet(ocean)}

\* the cells of S that are still Grass become Sand
GrassToSand(g, S) == SetCells(g, {c \in S : Tile(g, c[1], c[2]) = "Grass"}, "Sand")

\* sand_neighbors of the second ring: the Sand cells of the 3 x 3 block, the cell included
RingSandNeighbors(g, n, x, y) == CountTag(g, n, x, y, Offsets9, "Sand")

\* a second ring that is content with 2 Sand cells around
OceanSecondRingTwo(g, n, cands) ==
    UNION {{c \in Scan(n, b[1], b[2], Cardinal4) :
                /\ Tile(g, c[1], c[2]) = "Grass"
                /\ RingSandNeighbors(g, n, c[1], c[2]) >= 2} : b \in cands}

\* ocean_second_ring: Grass cardinal neighbours of a first-ring cell with enough Sand around
OceanSecondRing(g, n, cands) ==
    UNION {{c \in Scan(n, b[1], b[2], Cardinal4) :
                /\ Tile(g, c[1], c[2]) = "Grass"
                /\ RingSandNeighbors(g, n, c[1], c[2]) >= 3} : b \in cands}

\* lake_beach_candidates: the Grass cells among the 8 neighbours of a lake tile
LakeBeachCandidates(g, n, lakes) ==
    UNION {{c \in Scan(n, l[1], l[2], Offsets8) : Tile(g, c[1], c[2]) = "Grass"} : l \in SeqToSet(lakes)}

\* ------------------------------------------------------------ Stage E: _remove_isolated_tiles
\* the cells of "for y in range(1, n - 1): for x in range(1, n - 1)"
Interior(n) == Range(1, n - 1) \X Range(1, n - 1)

\* a chain whose third case takes a cell with 3 Sand and at least 5 Grass neighbours
ErodeCaseWiderAntenna(water_count, sand_count, grass_count, cardinal_sand) ==
    IF sand_count <= 2 /\ water_count = 0 THEN TRUE
    ELSE IF cardinal_sand = 0 /\ sand_count > 0 THEN TRUE
    ELSE IF sand_count = 3 /\ grass_count >= 5 THEN TRUE
    ELSE FALSE

\* a chain without the case of the diagonal-only sand connections
ErodeCaseNoDiagonal(water_count, sand_count, grass_count, cardinal_sand) ==
    IF sand_count <= 2 /\ water_count = 0 THEN TRUE
    ELSE IF sand_count = 1 /\ grass_count >= 6 THEN TRUE
    ELSE FALSE

\* a chain whose first case asks for at most 1 Sand neighbour
ErodeCaseNarrow(water_count, sand_count, grass_count, cardinal_sand) ==
    IF sand_count <= 1 /\ water_count = 0 THEN TRUE
    ELSE IF cardinal_sand = 0 /\ sand_count > 0 THEN TRUE
    ELSE IF sand_count = 1 /\ grass_count >= 6 THEN TRUE
    ELSE FALSE

\* the if / elif chain of the erode sub-sweep
ErodeCase(water_count, sand_count, grass_count, cardinal_sand) ==
    IF sand_count <= 2 /\ water_count = 0 THEN TRUE
    ELSE IF cardinal_sand = 0 /\ sand_count > 0 THEN TRUE
    ELSE IF sand_count = 1 /\ grass_count >= 6 THEN TRUE
    ELSE FALSE

\* should_remove without the final "keep all sand next to water"
ShouldRemoveByChain(water_count, sand_count, grass_count, cardinal_sand) ==
    ErodeCase(water_count, sand_count, grass_count, cardinal_sand)

\* should_remove: the chain, then "keep all sand next to water"
ShouldRemove(water_count, sand_count, grass_count, cardinal_sand) ==
    IF water_count > 0 THEN FALSE
    ELSE ErodeCase(water_count, sand_count, grass_count, cardinal_sand)

\* isolated_sand: the interior Sand cells the erode sub-sweep selects
IsolatedSand(g, n) ==
    {c \in Interior(n) :
        /\ Tile(g, c[1], c[2]) = "Sand"
        /\ ShouldRemove(CountTag(g, n, c[1], c[2], Offsets8, "Water"),
                        CountTag(g, n, c[1], c[2], Offsets8, "Sand"),
                        CountTag(g, n, c[1], c[2], Offsets8, "Grass"),
                        CountTag(g, n, c[1], c[2], Cardinal4, "Sand"))}

\* an erode sub-sweep that replaces each cell as soon as it is selected, the
\* cells taken in scan order
RECURSIVE ErodeInPlace(_, _, _)
ErodeInPlace(g, n, cells) ==
    IF cells = << >> THEN g
    ELSE ErodeInPlace(IF Head(cells) \in IsolatedSand(g, n) THEN SetCells(g, {Head(cells)}, "Grass") ELSE g,
                      n, Tail(cells))

ErodeSweepInPlace(g, n) == ErodeInPlace(g, n, SelectSeq(ScanOrder(n), LAMBDA c : c \in Interior(n)))

ErodeSweep(g, n) == SetCells(g, IsolatedSand(g, n), "Grass")

\* sand_directions: the offsets of the Sand cells among the 8 neighbours
SandDirections(g, n, x, y) ==
    {d \in Offsets8 : InBounds(n, x + d[1], y + d[2]) /\ Tile(g, x + d[1], y + d[2]) = "Sand"}

\* the L-shape and U-shape test of the fill sub-sweep, on the offsets (dx, dy)
JaggedShape(dirs) ==
    LET n_ == <<0, -1>> \in dirs
        s_ == <<0, 1>> \in dirs
        e_ == <<1, 0>> \in dirs
        w_ == <<-1, 0>> \in dirs
        ne == <<1, -1>> \in dirs
        nw == <<-1, -1>> \in dirs
        se == <<1, 1>> \in dirs
        sw == <<-1, 1>> \in dirs
    IN  \/ (n_ /\ e_ /\ ~ne)
        \/ (n_ /\ w_ /\ ~nw)
        \/ (s_ /\ e_ /\ ~se)
        \/ (s_ /\ w_ /\ ~sw)

\* a fill test that is content with 3 Sand neighbours, whatever their shape
ShouldFillThree(dirs) == Cardinality(dirs) >= 3

\* a fill test that asks for at least 7 Sand neighbours
ShouldFillSeven(dirs) ==
    IF Cardinality(dirs) >= 7 THEN TRUE
    ELSE IF Cardinality(dirs) >= 3 THEN JaggedShape(dirs)
    ELSE FALSE

ShouldFill(dirs) ==
    IF Cardinality(dirs) >= 5 THEN TRUE
    ELSE IF Cardinality(dirs) >= 3 THEN JaggedShape(dirs)
    ELSE FALSE

\* isolated_grass: the interior Grass cells the fill sub-sweep selects
IsolatedGrass(g, n) ==
    {c \in Interior(n) :
        /\ Tile(g, c[1], c[2]) = "Grass"
        /\ ShouldFill(SandDirections(g, n, c[1], c[2]))}

\* a fill sub-sweep that replaces the selected cells with Water tiles
FillSweepWithWater(g, n) == SetCells(g, IsolatedGrass(g, n), "Water")

FillSweep(g, n) == SetCells(g, IsolatedGrass(g, n), "Sand")

\* ------------------------------------------------------------ Stage F: _add_smooth_desert
DesertSize(s) == RandInt(s, Site.DesertSize, 0, 0, 5, 8)

\* the candidate of attempt k: int(center + distance * cos(angle)),
\* distance = random() * 0.25 * grid_size
CandidateX(n, s, k) ==
    TruncDiv(20 * UnitDen * Center(n)
             + Unit(s, Site.DesertDistance, k, 0) * n * DirCos[Angle(s, Site.DesertAngle, k, 0)],
             20 * UnitDen)
CandidateY(n, s, k) ==
    TruncDiv(20 * UnitDen * Center(n)
             + Unit(s, Site.DesertDistance, k, 0) * n * DirSin[Angle(s, Site.DesertAngle, k, 0)],
             20 * UnitDen)

\* the offsets of the window searched around a candidate
WindowOffsets == (-DESERT_WINDOW .. DESERT_WINDOW) \X (-DESERT_WINDOW .. DESERT_WINDOW)

\* has_water_nearby
HasWaterNearby(g, n, x, y) ==
    \E c \in Scan(n, x, y, WindowOffsets) : Tile(g, c[1], c[2]) = "Water"

\* an acceptance test that does not look for water around the candidate
IsDesertSiteAnyGrass(g, n, x, y) ==
    /\ InBounds(n, x, y)
    /\ Tile(g, x, y) = "Grass"

\* the candidate (x, y) is accepted as the desert's start
IsDesertSite(g, n, x, y) ==
    /\ InBounds(n, x, y)
    /\ Tile(g, x, y) = "Grass"
    /\ ~HasWaterNearby(g, n, x, y)

\* int(max_radius), max_radius = desert_size * 1.5
MaxRadius(s) == TruncDiv(3 * DesertSize(s), 2)

\* the cells of the blob's bounding box, clipped to the grid
BlobBox(n, s, sx, sy) ==
    Range(Max(0, sx - MaxRadius(s)), Min(n, sx + MaxRadius(s) + 1))
    \X Range(Max(0, sy - MaxRadius(s)), Min(n, sy + MaxRadius(s) + 1))

\* a = uniform(1.0, 1.5) = StretchA / (2 * UnitDen), and b likewise
StretchA(s) == 2 * UnitDen + Unit(s, Site.DesertA, 0, 0)
StretchB(s) == 2 * UnitDen + Unit(s, Site.DesertB, 0, 0)
Rotation(s) == HalfAngle(s, Site.DesertRotation, 0, 0)

\* a blob test whose edge noise is uniform(-9.0, -7.0)
InBlobLowNoise(s, dx, dy, x, y) ==
    LET rx == dx * DirCos[Rotation(s)] - dy * DirSin[Rotation(s)]
        ry == dx * DirSin[Rotation(s)] + dy * DirCos[Rotation(s)]
        a == StretchA(s)
        b == StretchB(s)
        tn == UnitDen * DesertSize(s) - 9 * UnitDen + 2 * Unit(s, Site.DesertNoise, x, y)
    IN  /\ tn > 0
        /\ 4 * UnitDen * UnitDen * UnitDen * UnitDen * (rx * rx * b * b + ry * ry * a * a)
             < 25 * a * a * b * b * tn * tn

\* distance < desert_size + edge_noise for the offset (dx, dy) from the start, with
\*   rotated_x = dx cos - dy sin, rotated_y = dx sin + dy cos   (in fifths: rx, ry)
\*   distance^2 = (rotated_x / a)^2 + (rotated_y / b)^2
\*   edge_noise = uniform(-1.0, 1.0) = -1 + 2 u, u = Unit / UnitDen
\* both sides squared and cleared of denominators
InBlob(s, dx, dy, x, y) ==
    LET rx == dx * DirCos[Rotation(s)] - dy * DirSin[Rotation(s)]
        ry == dx * DirSin[Rotation(s)] + dy * DirCos[Rotation(s)]
        a == StretchA(s)
        b == StretchB(s)
        \* desert_size + edge_noise = tn / UnitDen
        tn == UnitDen * DesertSize(s) - UnitDen + 2 * Unit(s, Site.DesertNoise, x, y)
    IN  /\ tn > 0
        /\ 4 * UnitDen * UnitDen * UnitDen * UnitDen * (rx * rx * b * b + ry * ry * a * a)
             < 25 * a * a * b * b * tn * tn

\* desert_cells: the Grass cells of the box within the noised radius
DesertCells(g, n, s, sx, sy) ==
    {c \in BlobBox(n, s, sx, sy) :
        /\ Tile(g, c[1], c[2]) = "Grass"
        /\ InBlob(s, c[1] - sx, c[2] - sy, c[1], c[2])}

\* extra_cells: Grass cells in the 3 x 3 block of a desert cell with at least 5
\* desert cells in their own 3 x 3 block
ExtraCells(g, n, cells) ==
    UNION {{c \in Scan(n, d[1], d[2], Offsets9) :
                /\ Tile(g, c[1], c[2]) = "Grass"
                /\ Cardinality(Scan(n, c[1], c[2], Offsets9) \cap cells) >= 5} : d \in cells}

\* ------------------------------------------------------------ _smooth_desert_edges
\* an isolated_sand that takes the cells with up to 3 Sand neighbours
DesertIsolatedSandThree(g, n) ==
    {c \in Interior(n) :
        /\ Tile(g, c[1], c[2]) = "Sand"
        /\ ~NearWater(g, n, c[1], c[2])
        /\ CountTag(g, n, c[1], c[2], Offsets8, "Sand") <= 3}

\* isolated_sand of the desert pass: interior Sand, not beach, with at most 2 Sand neighbours
DesertIsolatedSand(g, n) ==
    {c \in Interior(n) :
        /\ Tile(g, c[1], c[2]) = "Sand"
        /\ ~NearWater(g, n, c[1], c[2])
        /\ CountTag(g, n, c[1], c[2], Offsets8, "Sand") <= 2}

\* isolated_grass of the desert pass: interior Grass with at least 5 neighbours
\* that are Sand with no Water in their 3 x 3 block
DesertIsolatedGrass(g, n) ==
    {c \in Interior(n) :
        /\ Tile(g, c[1], c[2]) = "Grass"
        /\ Cardinality({e \in Scan(n, c[1], c[2], Offsets8) :
                            /\ Tile(g, e[1], e[2]) = "Sand"
                            /\ ~NearWater(g, n, e[1], e[2])}) >= 5}

SmoothDesertEdges(g, n) ==
    LET eroded == SetCells(g, DesertIsolatedSand(g, n), "Grass")
    IN  SetCells(eroded, DesertIsolatedGrass(eroded, n), "Sand")

\* ------------------------------------------------------------ Stage G: _add_trees_and_rocks
NumForests(s) == RandInt(s, Site.ForestCount, 0, 0, FOREST_COUNT_MIN, FOREST_COUNT_MAX)

\* int(center + distance * cos(angle)), distance = random() * 0.4 * grid_size
ForestX(n, s, f) ==
    TruncDiv(25 * UnitDen * Center(n)
             + 2 * Unit(s, Site.ForestDistance, f, 0) * n * DirCos[Angle(s, Site.ForestAngle, f, 0)],
             25 * UnitDen)
ForestY(n, s, f) ==
    TruncDiv(25 * UnitDen * Center(n)
             + 2 * Unit(s, Site.ForestDistance, f, 0) * n * DirSin[Angle(s, Site.ForestAngle, f, 0)],
             25 * UnitDen)
ForestRadius(s, f) == RandInt(s, Site.ForestRadius, f, 0, 5, 9)

\* forest_centers: (forest_x, forest_y, forest_radius) of the candidates that land on Grass
ForestCenters(g, n, s) ==
    {<<ForestX(n, s, f), ForestY(n, s, f), ForestRadius(s, f)>> :
        f \in {k \in Range(0, NumForests(s)) :
                  /\ InBounds(n, ForestX(n, s, k), ForestY(n, s, k))
                  /\ Tile(g, ForestX(n, s, k), ForestY(n, s, k)) = "Grass"}}

\* random.random() < tree_chance for the draw u = U / UnitDen, where
\*   tree_chance = max(forest_influence * 0.95, 0.15)
\*   forest_influence = max over the forests with distance < radius * 1.5
\*                      of max(0, 1.0 - distance / radius)
\* u < 0.15, or for some forest distance < radius * 1.5 and
\* distance < radius * (1 - u / 0.95)
TreeChanceHit(forests, x, y, U) ==
    \/ 20 * U < 3 * UnitDen
    \/ \E f \in forests :
          /\ SqrtLess(Dist2(x, y, f[1], f[2]), 3 * f[3], 2)
          /\ SqrtLess(Dist2(x, y, f[1], f[2]), f[3] * (19 * UnitDen - 20 * U), 19 * UnitDen)

\* tree placement that takes Sand cells as well as Grass cells
TreeCellsOnLand(g, n, s, objs) ==
    {c \in GridCells(n) :
        /\ Tile(g, c[1], c[2]) \in {"Grass", "Sand"}
        /\ c \notin DOMAIN objs
        /\ ~NearWater(g, n, c[1], c[2])
        /\ TreeChanceHit(ForestCenters(g, n, s), c[1], c[2], Unit(s, Site.TreeChance, c[1], c[2]))}

\* tree placement without the "skip if not grass" and near-water tests
TreeCellsAnyTerrain(g, n, s, objs) ==
    {c \in GridCells(n) :
        /\ c \notin DOMAIN objs
        /\ TreeChanceHit(ForestCenters(g, n, s), c[1], c[2], Unit(s, Site.TreeChance, c[1], c[2]))}

\* the cells that receive a Tree: Grass, no object yet, no Water in the 3 x 3 block,
\* and the draw of the cell falls under the tree chance
TreeCells(g, n, s, objs) ==
    LET forests == ForestCenters(g, n, s)
    IN  {c \in GridCells(n) :
            /\ Tile(g, c[1], c[2]) = "Grass"
            /\ c \notin DOMAIN objs
            /\ ~NearWater(g, n, c[1], c[2])
            /\ TreeChanceHit(forests, c[1], c[2], Unit(s, Site.TreeChance, c[1], c[2]))}

\* self.map_objects[(x, y)] = obj for every cell of S
PutObjects(objs, S, kind) ==
    [c \in (DOMAIN objs) \cup S |-> IF c \in S THEN kind ELSE objs[c]]

\* the cells of "for y in range(5, n - 5): for x in range(5, n - 5)", in order
MarginOrder(n) ==
    LET m == n - 2 * BORDER_MARGIN
    IN  IF m <= 0 THEN << >>
        ELSE [i \in 1 .. (m * m) |-> <<BORDER_MARGIN + ((i - 1) % m), BORDER_MARGIN + ((i - 1) \div m)>>]

\* available_spots: not Water, no object, and Grass or Sand
AvailableSpots(g, n, objs) ==
    LET IsFree(c) == /\ ~(Tile(g, c[1], c[2]) = "Water" \/ c \in DOMAIN objs)
                     /\ (Tile(g, c[1], c[2]) = "Grass" \/ Tile(g, c[1], c[2]) = "Sand")
    IN  SelectSeq(MarginOrder(n), IsFree)

\* the quadrant of a spot: 1 top-left, 2 top-right, 3 bottom-left, 4 bottom-right
QuadrantOf(n, c) ==
    IF c[1] < Center(n) /\ c[2] < Center(n) THEN 1
    ELSE IF c[1] >= Center(n) /\ c[2] < Center(n) THEN 2
    ELSE IF c[1] < Center(n) /\ c[2] >= Center(n) THEN 3
    ELSE 4

Quadrants(spots, n) ==
    [q \in 1 .. 4 |-> LET InQ(c) == QuadrantOf(n, c) = q IN SelectSeq(spots, InQ)]

\* a selection that takes the last ROCK_COUNT non-empty quadrants
LastQuadrants(spots, n) ==
    LET NonEmpty(q) == q # << >>
        non_empty == SelectSeq(Quadrants(spots, n), NonEmpty)
    IN  SubSeq(non_empty, Len(non_empty) - Min(ROCK_COUNT, Len(non_empty)) + 1, Len(non_empty))

\* a selection that draws from the first non-empty quadrant only
FirstQuadrantsOneOnly(spots, n) ==
    LET NonEmpty(q) == q # << >>
        non_empty == SelectSeq(Quadrants(spots, n), NonEmpty)
    IN  SubSeq(non_empty, 1, Min(1, Len(non_empty)))

\* non_empty_quadrants[:ROCK_COUNT]
FirstQuadrants(spots, n) ==
    LET NonEmpty(q) == q # << >>
        non_empty == SelectSeq(Quadrants(spots, n), NonEmpty)
    IN  SubSeq(non_empty, 1, Min(ROCK_COUNT, Len(non_empty)))

\* the draws of Stage G's rock selection: random.choice and random.shuffle each
\* draw a value r / RockDraws, r in 0 .. RockDraws-1
RockDraws == 3
\* random.choice(q) for the draw r
Choice(q, r) == q[1 + ((r * Len(q)) \div RockDraws)]

\* q without its element at index i
RemoveAt(q, i) == SubSeq(q, 1, i - 1) \o SubSeq(q, i + 1, Len(q))

\* the first k elements of random.shuffle(q), the j-th taken with the draw d[from + j - 1]
RECURSIVE ShufflePrefix(_, _, _, _)
ShufflePrefix(q, k, d, from) ==
    IF k <= 0 \/ q = << >> THEN << >>
    ELSE LET i == 1 + ((d[from] * Len(q)) \div RockDraws)
         IN  <<q[i]>> \o ShufflePrefix(RemoveAt(q, i), k - 1, d, from + 1)

\* remaining_spots without the "not in rock_positions" filter
RemainingSpotsAll(spots, chosen) == spots

\* remaining_spots: the available spots not chosen yet
RemainingSpots(spots, chosen) ==
    LET NotChosen(c) == \A i \in DOMAIN chosen : chosen[i] # c
    IN  SelectSeq(spots, NotChosen)

\* rock_positions without the top-up from the remaining spots
RockPositionsNoTopUp(spots, n, d) ==
    IF spots = << >> THEN << >>
    ELSE [j \in 1 .. Len(FirstQuadrants(spots, n)) |-> Choice(FirstQuadrants(spots, n)[j], d[j])]

\* rock_positions for the available spots and the draws d (one per rock)
RockPositions(spots, n, d) ==
    IF spots = << >> THEN << >>
    ELSE LET firstq == FirstQuadrants(spots, n)
             picked == [j \in 1 .. Len(firstq) |-> Choice(firstq[j], d[j])]
             remaining == RemainingSpots(spots, picked)
             additional_needed == ROCK_COUNT - Len(picked)
         IN  IF additional_needed > 0 /\ remaining # << >>
             THEN picked \o ShufflePrefix(remaining, additional_needed, d, Len(picked) + 1)
             ELSE picked

\* ------------------------------------------------------------ the cells a stage indexes
\* UNION of the scans around the cells of S
ScanAll(n, S, D) == UNION {Scan(n, c[1], c[2], D) : c \in S}

WithTag(g, S, t) == {c \in S : Tile(g, c[1], c[2]) = t}

\* the grid indexes used by each step, as its loop ranges and bounds guards allow them
LakesIndexed(n, s) == UNION {LakeBox(n, s, k) : k \in Range(0, NumLakes(s))}
FloodIndexed(n, x, y) == Scan(n, x, y, SeqToSet(FloodOffsets))
Ring1Indexed(n, ocean) == ScanAll(n, SeqToSet(ocean), Offsets9)
Ring2Indexed(g, n, cands) ==
    cands \cup ScanAll(n, cands, Cardinal4)
          \cup ScanAll(n, WithTag(g, ScanAll(n, cands, Cardinal4), "Grass"), Offsets9)
LakeBeachIndexed(n, lakes) == ScanAll(n, SeqToSet(lakes), Offsets8)
SweepIndexed(g, n, t) == Interior(n) \cup ScanAll(n, WithTag(g, Interior(n), t), Offsets8)
SearchIndexed(g, n, x, y) ==
    IF ~InBounds(n, x, y) THEN {}
    ELSE IF Tile(g, x, y) # "Grass" THEN {<<x, y>>}
    ELSE {<<x, y>>} \cup Scan(n, x, y, WindowOffsets)
GapIndexed(n, cells) == cells \cup ScanAll(n, cells, Offsets9)
DesertSmoothIndexed(g, n) ==
    Interior(n) \cup ScanAll(n, WithTag(g, Interior(n), "Sand"), Offsets9)
                \cup ScanAll(n, WithTag(g, Interior(n), "Grass"), Offsets8)
                \cup ScanAll(n, WithTag(g, ScanAll(n, WithTag(g, Interior(n), "Grass"), Offsets8), "Sand"),
                             Offsets9)
TreesIndexed(g, n, s) ==
    {<<ForestX(n, s, f), ForestY(n, s, f)>> :
        f \in {k \in Range(0, NumForests(s)) : InBounds(n, ForestX(n, s, k), ForestY(n, s, k))}}
    \cup GridCells(n) \cup ScanAll(n, WithTag(g, GridCells(n), "Grass"), Offsets9)
RocksIndexed(n) == SeqToSet(MarginOrder(n))

\* the index (x, y) is outside the grid
Outside(n, c) == ~(0 <= c[1] /\ c[1] < n /\ 0 <= c[2] /\ c[2] < n)
\* Python raises IndexError for a list index >= len or < -len; an index in -len .. -1
\* wraps around
RaisesIndexError(n, c) == c[1] >= n \/ c[1] < -n \/ c[2] >= n \/ c[2] < -n

\* ------------------------------------------------------------ state
VARIABLES
    grid_size,      \* self.grid_size
    tile_size,      \* self.tile_size
    seed,           \* the random stream of the run
    grid,           \* self.grid
    map_objects,    \* self.map_objects: cell -> "Tree" | "Rock"
    pc,             \* the position in generate_map
    pass,           \* the pass of _remove_isolated_tiles, 0 .. SMOOTH_PASSES-1
    ocean_tiles,    \* Stage D
    lake_tiles,
    visited,
    queue,
    ocean_beach_candidates,
    found_start,    \* Stage F
    start,          \* (start_x, start_y)
    attempts,
    desert_cells,
    rock_positions, \* Stage G
    result,         \* what generate_map returned
    trace,          \* history: the stages entered so far, in order
    indexed_outside,\* history: some grid index used lay outside the grid
    overwritten,    \* history: the keys of map_objects written while present
    in_scene,       \* the keys of the Tree and Rock items that are in the scene
    grid_at_desert, \* history: the grid when Stage F was entered
    grid_at_smooth, \* history: the grid when Stage E was entered
    grid_at_pass,   \* history: the grid when the current Stage-E pass began
    was_sand        \* history: the cells that held Sand at the start of Stage E or after a pass

stage_d == <<ocean_tiles, lake_tiles, visited, queue, ocean_beach_candidates>>
stage_e == <<pass, grid_at_smooth, grid_at_pass, was_sand>>
stage_f == <<found_start, start, attempts, desert_cells, grid_at_desert>>
inputs == <<grid_size, tile_size, seed>>
vars == <<grid_size, tile_size, seed, grid, map_objects, pc, pass, ocean_tiles, lake_tiles,
          visited, queue, ocean_beach_candidates, found_start, start, attempts, desert_cells,
          rock_positions, result, trace, indexed_outside, overwritten, in_scene, grid_at_desert,
          grid_at_smooth, grid_at_pass, was_sand>>

SandCells(g) == {c \in DOMAIN g : g[c] = "Sand"}

\* the step used the grid indexes `cells` and goes on at `then`
Goes(cells, then) ==
    /\ pc' = IF \E c \in cells : RaisesIndexError(grid_size, c) THEN "raised" ELSE then
    /\ indexed_outside' = (indexed_outside \/ \E c \in cells : Outside(grid_size, c))

\* the locals of the stages, before their stage sets them
NoLocals ==
    /\ pass = 0
    /\ ocean_tiles = << >>
    /\ lake_tiles = << >>
    /\ visited = {}
    /\ queue = << >>
    /\ ocean_beach_candidates = {}
    /\ found_start = FALSE
    /\ start = <<0, 0>>
    /\ attempts = 0
    /\ desert_cells = {}
    /\ rock_positions = << >>
    /\ result = << >>
    /\ trace = << >>
    /\ indexed_outside = FALSE
    /\ overwritten = {}
    /\ in_scene = {}
    /\ grid_at_desert = << >>
    /\ grid_at_smooth = << >>
    /\ grid_at_pass = << >>
    /\ was_sand = {}

\* MapGenerator.__init__
Init ==
    /\ grid_size \in GridSizes
    /\ \E k \in Seeds : seed = Stream(grid_size, k)
    /\ tile_size = 0
    /\ grid = << >>
    /\ map_objects = << >>
    /\ pc = "constructed"
    /\ NoLocals

\* generate_map, up to the first stage
GenerateMap ==
    /\ pc = "constructed"
    /\ \E t \in TileSizes : tile_size' = t
    /\ grid' = [c \in GridCells(grid_size) |-> "None"]
    /\ map_objects' = << >>
    /\ pc' = "water"
    /\ UNCHANGED <<in_scene, grid_size, seed, stage_e, stage_d, stage_f, rock_positions, result, trace,
                   indexed_outside, overwritten>>

StageWater ==
    /\ pc = "water"
    /\ grid' = CreateWaterBase(grid, grid_size)
    /\ Goes(GridCells(grid_size), "island")
    /\ trace' = Append(trace, "water")
    /\ UNCHANGED <<in_scene, inputs, map_objects, stage_e, stage_d, stage_f, rock_positions, result, overwritten>>

StageIsland ==
    /\ pc = "island"
    /\ grid' = CreateMainIsland(grid, grid_size, seed)
    /\ Goes(GridCells(grid_size), "lakes")
    /\ trace' = Append(trace, "island")
    /\ UNCHANGED <<in_scene, inputs, map_objects, stage_e, stage_d, stage_f, rock_positions, result, overwritten>>

StageLakes ==
    /\ pc = "lakes"
    /\ grid' = AddLakes(grid, grid_size, seed)
    /\ Goes(LakesIndexed(grid_size, seed), "beaches")
    /\ trace' = Append(trace, "lakes")
    /\ UNCHANGED <<in_scene, inputs, map_objects, stage_e, stage_d, stage_f, rock_positions, result, overwritten>>

\* Stage D, the seeds of the classification
BeachSeeds ==
    /\ pc = "beaches"
    /\ ocean_tiles' = OceanSeeds(grid, grid_size)
    /\ visited' = SeqToSet(OceanSeeds(grid, grid_size))
    /\ queue' = OceanSeeds(grid, grid_size)
    /\ Goes(GridCells(grid_size), "flood")
    /\ trace' = Append(trace, "beaches")
    /\ UNCHANGED <<in_scene, inputs, grid, map_objects, stage_e, lake_tiles, ocean_beach_candidates, stage_f,
                   rock_positions, result, overwritten>>

\* the next iterations of "while queue", up to FloodBatch of them
FloodStep ==
    /\ pc = "flood"
    /\ queue # << >>
    /\ LET r == FloodRun(grid, grid_size, [visited |-> visited, queue |-> queue, added |-> << >>],
                         FloodBatch)
           popped == SubSeq(queue \o r.added, 1, Len(queue) + Len(r.added) - Len(r.queue))
       IN  /\ visited' = r.visited
           /\ queue' = r.queue
           /\ ocean_tiles' = ocean_tiles \o r.added
           /\ Goes(UNION {FloodIndexed(grid_size, c[1], c[2]) : c \in SeqToSet(popped)}, "flood")
    /\ UNCHANGED <<in_scene, inputs, grid, map_objects, stage_e, lake_tiles, ocean_beach_candidates, stage_f,
                   rock_positions, result, trace, overwritten>>

\* the queue is empty: all remaining water is lakes
TagLakes ==
    /\ pc = "flood"
    /\ queue = << >>
    /\ lake_tiles' = LakeTiles(grid, grid_size, visited)
    /\ Goes(GridCells(grid_size), "ring1")
    /\ UNCHANGED <<in_scene, inputs, grid, map_objects, stage_e, ocean_tiles, visited, queue,
                   ocean_beach_candidates, stage_f, rock_positions, result, trace, overwritten>>

\* the first ring of ocean beach
OceanRing1 ==
    /\ pc = "ring1"
    /\ ocean_beach_candidates' = OceanBeachCandidates(grid, grid_size, ocean_tiles)
    /\ grid' = GrassToSand(grid, OceanBeachCandidates(grid, grid_size, ocean_tiles))
    /\ Goes(Ring1Indexed(grid_size, ocean_tiles), "ring2")
    /\ UNCHANGED <<in_scene, inputs, map_objects, stage_e, ocean_tiles, lake_tiles, visited, queue, stage_f,
                   rock_positions, result, trace, overwritten>>

\* the second ring of ocean beach
OceanRing2 ==
    /\ pc = "ring2"
    /\ grid' = GrassToSand(grid, OceanSecondRing(grid, grid_size, ocean_beach_candidates))
    /\ Goes(Ring2Indexed(grid, grid_size, ocean_beach_candidates), "lake_beach")
    /\ UNCHANGED <<in_scene, inputs, map_objects, stage_e, stage_d, stage_f, rock_positions, result, trace,
                   overwritten>>

\* the beaches of the lakes
LakeBeach ==
    /\ pc = "lake_beach"
    /\ grid' = GrassToSand(grid, LakeBeachCandidates(grid, grid_size, lake_tiles))
    /\ Goes(LakeBeachIndexed(grid_size, lake_tiles), "smooth")
    /\ UNCHANGED <<in_scene, inputs, map_objects, stage_e, stage_d, stage_f, rock_positions, result, trace,
                   overwritten>>

\* Stage E is entered: the first of its passes
SmoothBegin ==
    /\ pc = "smooth"
    /\ pass' = 0
    /\ grid_at_smooth' = grid
    /\ grid_at_pass' = grid
    /\ was_sand' = SandCells(grid)
    /\ pc' = "erode"
    /\ trace' = Append(trace, "smooth")
    /\ UNCHANGED <<in_scene, inputs, grid, map_objects, stage_d, stage_f, rock_positions, result,
                   indexed_outside, overwritten>>

\* the erode sub-sweep of a pass
Erode ==
    /\ pc = "erode"
    /\ grid' = ErodeSweep(grid, grid_size)
    /\ Goes(SweepIndexed(grid, grid_size, "Sand"), "fill")
    /\ UNCHANGED <<in_scene, inputs, map_objects, stage_e, stage_d, stage_f, rock_positions, result, trace,
                   overwritten>>

\* the fill sub-sweep of a pass, and the step to the next pass
Fill ==
    /\ pc = "fill"
    /\ grid' = FillSweep(grid, grid_size)
    /\ pass' = pass + 1
    /\ grid_at_pass' = grid'
    /\ was_sand' = was_sand \cup SandCells(grid')
    /\ UNCHANGED grid_at_smooth
    /\ Goes(SweepIndexed(grid, grid_size, "Grass"),
            IF pass + 1 < SMOOTH_PASSES THEN "erode" ELSE "desert")
    /\ UNCHANGED <<in_scene, inputs, map_objects, stage_d, stage_f, rock_positions, result, trace, overwritten>>

\* Stage F is entered
DesertBegin ==
    /\ pc = "desert"
    /\ found_start' = FALSE
    /\ start' = <<0, 0>>
    /\ attempts' = 0
    /\ grid_at_desert' = grid
    /\ pc' = "desert_search"
    /\ trace' = Append(trace, "desert")
    /\ UNCHANGED <<in_scene, inputs, grid, map_objects, stage_e, stage_d, desert_cells, rock_positions, result,
                   indexed_outside, overwritten>>

\* one iteration of "while not found_start and attempts < 50"
DesertSearch ==
    /\ pc = "desert_search"
    /\ ~found_start /\ attempts < DESERT_ATTEMPTS
    /\ LET x == CandidateX(grid_size, seed, attempts)
           y == CandidateY(grid_size, seed, attempts)
       IN  /\ found_start' = IsDesertSite(grid, grid_size, x, y)
           /\ start' = IF IsDesertSite(grid, grid_size, x, y) THEN <<x, y>> ELSE start
           /\ Goes(SearchIndexed(grid, grid_size, x, y), "desert_search")
    /\ attempts' = attempts + 1
    /\ UNCHANGED <<in_scene, inputs, grid, map_objects, stage_e, stage_d, desert_cells, grid_at_desert,
                   rock_positions, result, trace, overwritten>>

\* a desert stage that never takes the early return
SkipsDesertNever(found) == FALSE

\* "if not found_start: return"
SkipsDesert(found) == ~found

\* the search ended without a site: Stage F returns
DesertSkip ==
    /\ pc = "desert_search"
    /\ ~(~found_start /\ attempts < DESERT_ATTEMPTS)
    /\ SkipsDesert(found_start)
    /\ pc' = "trees"
    /\ UNCHANGED <<in_scene, inputs, grid, map_objects, stage_e, stage_d, stage_f, rock_positions, result, trace,
                   indexed_outside, overwritten>>

\* the blob around the start
DesertBlob ==
    /\ pc = "desert_search"
    /\ ~(~found_start /\ attempts < DESERT_ATTEMPTS)
    /\ ~SkipsDesert(found_start)
    /\ desert_cells' = DesertCells(grid, grid_size, seed, start[1], start[2])
    /\ grid' = SetCells(grid, DesertCells(grid, grid_size, seed, start[1], start[2]), "Sand")
    /\ Goes(BlobBox(grid_size, seed, start[1], start[2]), "desert_gap")
    /\ UNCHANGED <<in_scene, inputs, map_objects, stage_e, stage_d, found_start, start, attempts, grid_at_desert,
                   rock_positions, result, trace, overwritten>>

\* the gaps of the blob are filled
DesertGapFill ==
    /\ pc = "desert_gap"
    /\ grid' = SetCells(grid, ExtraCells(grid, grid_size, desert_cells), "Sand")
    /\ Goes(GapIndexed(grid_size, desert_cells), "desert_smooth")
    /\ UNCHANGED <<in_scene, inputs, map_objects, stage_e, stage_d, stage_f, rock_positions, result, trace,
                   overwritten>>

\* _smooth_desert_edges
DesertSmooth ==
    /\ pc = "desert_smooth"
    /\ grid' = SmoothDesertEdges(grid, grid_size)
    /\ Goes(DesertSmoothIndexed(grid, grid_size), "trees")
    /\ UNCHANGED <<in_scene, inputs, map_objects, stage_e, stage_d, stage_f, rock_positions, result, trace,
                   overwritten>>

\* Stage G, parts 1 and 2: the forests and the trees
PlaceTrees ==
    /\ pc = "trees"
    /\ map_objects' = PutObjects(map_objects, TreeCells(grid, grid_size, seed, map_objects), "Tree")
    /\ in_scene' = in_scene \cup TreeCells(grid, grid_size, seed, map_objects)
    /\ overwritten' = overwritten \cup (TreeCells(grid, grid_size, seed, map_objects) \cap DOMAIN map_objects)
    /\ Goes(TreesIndexed(grid, grid_size, seed), "rocks")
    /\ trace' = Append(trace, "trees_and_rocks")
    /\ UNCHANGED <<inputs, grid, stage_e, stage_d, stage_f, rock_positions, result>>

\* the keys of the writes q[1], q[2], .. that are present when written
RECURSIVE WritesOver(_, _)
WritesOver(q, present) ==
    IF q = << >> THEN {}
    ELSE (IF Head(q) \in present THEN {Head(q)} ELSE {})
         \cup WritesOver(Tail(q), present \cup {Head(q)})

\* Stage G, part 3: the rocks
PlaceRocks ==
    /\ pc = "rocks"
    /\ \E d \in [1 .. ROCK_COUNT -> 0 .. (RockDraws - 1)] :
          LET rocks == RockPositions(AvailableSpots(grid, grid_size, map_objects), grid_size, d)
          IN  /\ rock_positions' = rocks
              /\ map_objects' = PutObjects(map_objects, SeqToSet(rocks), "Rock")
              /\ in_scene' = in_scene \cup SeqToSet(rocks)
              /\ overwritten' = overwritten \cup WritesOver(rocks, DOMAIN map_objects)
    /\ Goes(RocksIndexed(grid_size), "return")
    /\ UNCHANGED <<inputs, grid, stage_e, stage_d, stage_f, result, trace>>

\* return self.grid_size * self.tile_size, self.grid_size * self.tile_size
Return ==
    /\ pc = "return"
    /\ result' = <<grid_size * tile_size, grid_size * tile_size>>
    /\ pc' = "done"
    /\ UNCHANGED <<in_scene, inputs, grid, map_objects, stage_e, stage_d, stage_f, rock_positions, trace,
                   indexed_outside, overwritten>>

Next ==
    \/ GenerateMap
    \/ StageWater
    \/ StageIsland
    \/ StageLakes
    \/ BeachSeeds
    \/ FloodStep
    \/ TagLakes
    \/ OceanRing1
    \/ OceanRing2
    \/ LakeBeach
    \/ SmoothBegin
    \/ Erode
    \/ Fill
    \/ DesertBegin
    \/ DesertSearch
    \/ DesertSkip
    \/ DesertBlob
    \/ DesertGapFill
    \/ DesertSmooth
    \/ PlaceTrees
    \/ PlaceRocks
    \/ Return

Spec == Init /\ [][Next]_vars

\* ------------------------------------------------------------ the smoothing passes on any grid
\* the smoothing sweeps are run on grids of this size
SmoothGridSize == 3

\* the tags a generated grid carries
LandTiles == {"Water", "Grass", "Sand"}

\* the 3 x 3 block around the interior cell (1, 1)
Block == {<<1 + d[1], 1 + d[2]>> : d \in Offsets9}

\* every grid of size n whose 3 x 3 block is tagged freely, the rest uniformly
SmoothGrids(n) ==
    {[c \in GridCells(n) |-> IF c \in Block THEN b[c] ELSE t] :
        b \in [Block -> LandTiles], t \in LandTiles}

\* a generator about to run an erode sub-sweep of the last Stage-E pass, or the
\* desert edge smoothing, on any grid
InitSmooth ==
    /\ grid_size = SmoothGridSize
    /\ seed = Stream(grid_size, 0)
    /\ tile_size \in TileSizes
    /\ grid \in SmoothGrids(grid_size)
    /\ map_objects = << >>
    /\ pc \in {"erode", "desert_smooth"}
    /\ pass = SMOOTH_PASSES - 1
    /\ ocean_tiles = << >>
    /\ lake_tiles = << >>
    /\ visited = {}
    /\ queue = << >>
    /\ ocean_beach_candidates = {}
    /\ found_start = FALSE
    /\ start = <<0, 0>>
    /\ attempts = 0
    /\ desert_cells = {}
    /\ rock_positions = << >>
    /\ result = << >>
    /\ trace = << >>
    /\ indexed_outside = FALSE
    /\ overwritten = {}
    /\ in_scene = {}
    /\ grid_at_desert = << >>
    /\ grid_at_smooth = << >>
    /\ grid_at_pass = << >>
    /\ was_sand = {}

NextSmooth ==
    \/ Erode
    \/ Fill
    \/ DesertSmooth

SpecSmooth == InitSmooth /\ [][NextSmooth]_vars

\* ------------------------------------------------------------ the window: clicks on placed objects
\* QGraphicsItem.scene() of the item keyed k: the scene that holds it, None when
\* no scene does (QGraphicsScene.removeItem takes the item out of its scene)
ItemScene(k, items) == IF k \in items THEN "scene" ELSE "None"

\* main_window as InteractionItem.remove finds it through self.scene().views()
MainWindowOf(k, items) == IF ItemScene(k, items) # "None" THEN "window" ELSE "None"

\* the object map without the key k
DeleteKey(objs, k) == [c \in (DOMAIN objs) \ {k} |-> objs[c]]

\* InteractionItem.mousePressEvent with the left button on an item of the scene,
\* which calls remove(); the window's map_objects is the generator's dictionary
LeftClick ==
    /\ pc = "done"
    /\ \E k \in in_scene :
          LET after == in_scene \ {k}
              main_window == MainWindowOf(k, after)
          IN  /\ in_scene' = after
              /\ map_objects' = IF main_window # "None" /\ k \in DOMAIN map_objects
                                THEN DeleteKey(map_objects, k)
                                ELSE map_objects
    /\ UNCHANGED <<inputs, grid, pc, stage_e, stage_d, stage_f, rock_positions, result, trace,
                   indexed_outside, overwritten>>

\* the window is run on grids of these sizes
WindowGridSizes == {20}

InitWindow ==
    /\ grid_size \in WindowGridSizes
    /\ \E k \in Seeds : seed = Stream(grid_size, k)
    /\ tile_size = 0
    /\ grid = << >>
    /\ map_objects = << >>
    /\ pc = "constructed"
    /\ NoLocals

\* MyWindow.initGameBoard on a grid without room for a desert, then the clicks
NextWindow ==
    \/ GenerateMap
    \/ StageWater
    \/ StageIsland
    \/ StageLakes
    \/ BeachSeeds
    \/ FloodStep
    \/ TagLakes
    \/ OceanRing1
    \/ OceanRing2
    \/ LakeBeach
    \/ SmoothBegin
    \/ Erode
    \/ Fill
    \/ DesertBegin
    \/ DesertSearch
    \/ DesertSkip
    \/ PlaceTrees
    \/ PlaceRocks
    \/ Return
    \/ LeftClick

SpecWindow == InitWindow /\ [][NextWindow]_vars

\* ------------------------------------------------------------ Stage E on its own
\* _remove_isolated_tiles run from its first pass on the grids whose central
\* 3 x 3 block is tagged freely and whose other cells all carry one tag, so
\* that the neighbours of the centre cell are interior cells themselves
PassGridSize == 5

PassBlock(n) == {<<Center(n) + d[1], Center(n) + d[2]>> : d \in Offsets9}

PassGrids(n) ==
    {[c \in GridCells(n) |-> IF c \in PassBlock(n) THEN b[c] ELSE t] :
        b \in [PassBlock(n) -> LandTiles], t \in LandTiles}

InitPass ==
    /\ grid_size = PassGridSize
    /\ seed = Stream(grid_size, 0)
    /\ tile_size \in TileSizes
    /\ grid \in PassGrids(grid_size)
    /\ map_objects = << >>
    /\ pc = "erode"
    /\ pass = 0
    /\ grid_at_smooth = grid
    /\ grid_at_pass = grid
    /\ was_sand = SandCells(grid)
    /\ ocean_tiles = << >>
    /\ lake_tiles = << >>
    /\ visited = {}
    /\ queue = << >>
    /\ ocean_beach_candidates = {}
    /\ found_start = FALSE
    /\ start = <<0, 0>>
    /\ attempts = 0
    /\ desert_cells = {}
    /\ rock_positions = << >>
    /\ result = << >>
    /\ trace = << >>
    /\ indexed_outside = FALSE
    /\ overwritten = {}
    /\ in_scene = {}
    /\ grid_at_desert = << >>

NextPass ==
    \/ Erode
    \/ Fill

SpecPass == InitPass /\ [][NextPass]_vars

\* ------------------------------------------------------------ Stage D on its own
\* _add_consistent_beaches run on the Water / Grass grids whose cells are
\* tagged freely in a block that straddles the border band and the middle, and
\* carry one tag elsewhere
BeachGridSize == 13

BeachBlock == (BORDER_MARGIN - 1 .. BORDER_MARGIN + 1) \X (BORDER_MARGIN - 1 .. BORDER_MARGIN + 1)

BeachGrids(n) ==
    {[c \in GridCells(n) |-> IF c \in BeachBlock THEN b[c] ELSE t] :
        b \in [BeachBlock -> {"Water", "Grass"}], t \in {"Water", "Grass"}}

InitBeach ==
    /\ grid_size = BeachGridSize
    /\ seed = Stream(grid_size, 0)
    /\ tile_size \in TileSizes
    /\ grid \in BeachGrids(grid_size)
    /\ map_objects = << >>
    /\ pc = "beaches"
    /\ NoLocals

NextBeach ==
    \/ BeachSeeds
    \/ FloodStep
    \/ TagLakes
    \/ OceanRing1
    \/ OceanRing2
    \/ LakeBeach

SpecBeach == InitBeach /\ [][NextBeach]_vars

\* ------------------------------------------------------------ properties
\* generate_map has returned
Returned == pc = "done"

WaterCells == {c \in DOMAIN grid : grid[c] = "Water"}
TreeKeys == {k \in DOMAIN map_objects : map_objects[k] = "Tree"}
RockKeys == {k \in DOMAIN map_objects : map_objects[k] = "Rock"}

\* C1: when generate_map returns for a grid_size >= 1, every cell (x, y) with
\* 0 <= x, y < grid_size holds Water, Grass or Sand; none is left None.
C1_EveryCellTagged ==
    (Returned /\ grid_size >= 1) =>
        /\ DOMAIN grid = GridCells(grid_size)
        /\ \A c \in GridCells(grid_size) : grid[c] \in LandTiles

\* a returned map on which all three tags occur
C1_Witness ==
    /\ Returned
    /\ grid_size >= 1
    /\ \A t \in LandTiles : \E c \in GridCells(grid_size) : grid[c] = t

\* C2: no key of map_objects, Tree or Rock, is a cell whose terrain is Water.
C2_NoObjectOnWater ==
    \A k \in DOMAIN map_objects : k \in DOMAIN grid /\ grid[k] # "Water"

\* a returned map that carries a Tree and a Rock, and has Water
C2_Witness ==
    /\ Returned
    /\ TreeKeys # {}
    /\ RockKeys # {}
    /\ WaterCells # {}

\* the rock positions are pairwise distinct
DistinctRocks ==
    \A i, j \in DOMAIN rock_positions : i # j => rock_positions[i] # rock_positions[j]

\* a step keeps every entry of map_objects
KeepsEntries ==
    \A k \in DOMAIN map_objects : k \in DOMAIN map_objects' /\ map_objects'[k] = map_objects[k]

\* C3: every write map_objects[(x, y)] = obj targets a key that is not present
\* yet: no key is written twice, the rock cells are pairwise distinct, no rock
\* lands on a tree, and no step deletes or replaces an entry.
C3_WritesTargetAbsentKeys ==
    /\ [](overwritten = {} /\ DistinctRocks)
    /\ [][KeepsEntries]_vars

\* a returned map with trees and the full number of rocks
C3_Witness ==
    /\ Returned
    /\ TreeKeys # {}
    /\ Len(rock_positions) = ROCK_COUNT
    /\ Cardinality(RockKeys) = ROCK_COUNT

\* the cell c has a Water cell among its 8 neighbours
WaterAmong8(c) == \E d \in Offsets8 : Tile(grid, c[1] + d[1], c[2] + d[2]) = "Water"

\* C4: no smoothing sweep (the erode and fill sub-sweeps of Stage E, the desert
\* edge smoothing) turns into Grass a Sand cell that has a Water cell among its
\* 8 neighbours, whatever the grid before the sweep.
C4_BeachSandKept ==
    [][\A c \in DOMAIN grid : (grid[c] = "Sand" /\ WaterAmong8(c)) => grid'[c] # "Grass"]_vars

\* after an erode sub-sweep: a Sand cell next to Water that the if / elif chain
\* alone would have removed is still Sand
C4_Witness ==
    /\ pc = "fill"
    /\ \E c \in Interior(grid_size) :
          /\ grid[c] = "Sand"
          /\ WaterAmong8(c)
          /\ ErodeCase(CountTag(grid, grid_size, c[1], c[2], Offsets8, "Water"),
                       CountTag(grid, grid_size, c[1], c[2], Offsets8, "Sand"),
                       CountTag(grid, grid_size, c[1], c[2], Offsets8, "Grass"),
                       CountTag(grid, grid_size, c[1], c[2], Cardinal4, "Sand"))

\* the cells within the 5-cell margin
MarginCells ==
    Range(BORDER_MARGIN, grid_size - BORDER_MARGIN) \X Range(BORDER_MARGIN, grid_size - BORDER_MARGIN)

\* the eligible cells: within the margin, Grass or Sand, and without a tree
Eligible ==
    {c \in MarginCells :
        /\ Tile(grid, c[1], c[2]) \in {"Grass", "Sand"}
        /\ ~(c \in DOMAIN map_objects /\ map_objects[c] = "Tree")}

\* C5: the rocks placed are pairwise distinct eligible cells, and there are
\* exactly min(3, number of eligible cells) of them.
C5_RockCount ==
    pc \in {"return", "done"} =>
        LET eligible == Eligible
        IN  /\ DistinctRocks
            /\ SeqToSet(rock_positions) \subseteq eligible
            /\ RockKeys = SeqToSet(rock_positions)
            /\ Len(rock_positions) = Min(ROCK_COUNT, Cardinality(eligible))

\* three rocks placed although the eligible cells lie in two quadrants only
C5_Witness ==
    /\ Returned
    /\ Len(rock_positions) = ROCK_COUNT
    /\ Cardinality({QuadrantOf(grid_size, c) : c \in Eligible}) = 2

\* C6: right after the classification, ocean_tiles and lake_tiles are disjoint,
\* neither lists a cell twice, neither lists a cell that is not Water, and
\* together they list every Water cell.
C6_WaterPartition ==
    pc = "ring1" =>
        /\ SeqToSet(ocean_tiles) \cap SeqToSet(lake_tiles) = {}
        /\ Cardinality(SeqToSet(ocean_tiles)) = Len(ocean_tiles)
        /\ Cardinality(SeqToSet(lake_tiles)) = Len(lake_tiles)
        /\ SeqToSet(ocean_tiles) \cup SeqToSet(lake_tiles) = WaterCells

\* a classification with both an ocean and a lake
C6_Witness ==
    /\ pc = "ring1"
    /\ ocean_tiles # << >>
    /\ lake_tiles # << >>

\* C8: with a grid_size that is zero or negative, generate_map fails with a
\* precondition error: it does not return normally.
C8_FailsFast == grid_size <= 0 => ~Returned

\* generate_map has returned for a grid_size that is zero or negative: the grid
\* and the object map are empty, the size returned is grid_size * tile_size
C8_ReturnsDegenerateMap ==
    /\ Returned
    /\ grid_size <= 0
    /\ DOMAIN grid = {}
    /\ DOMAIN map_objects = {}
    /\ result = <<grid_size * tile_size, grid_size * tile_size>>

\* the search of Stage F has used its 50 attempts and found no site
NoSiteFound == attempts = DESERT_ATTEMPTS /\ ~found_start

\* C9: if none of the 50 candidates is a desert site, Stage F changes no cell
\* (no blob, no gap filling, no edge smoothing) and raises nothing, and the next
\* step is Stage G, which has run when generate_map returns.
C9_DesertSkipped ==
    /\ [](NoSiteFound =>
            /\ grid = grid_at_desert
            /\ pc \notin {"desert_gap", "desert_smooth", "raised"}
            /\ (Returned => trace # << >> /\ trace[Len(trace)] = "trees_and_rocks"))
    /\ [][(NoSiteFound /\ pc = "desert_search") => pc' = "trees"]_vars

\* a returned map without a desert site, on which Stage G placed trees and rocks
C9_Witness ==
    /\ Returned
    /\ NoSiteFound
    /\ TreeKeys # {}
    /\ RockKeys # {}

\* a positive grid_size too small for the two border margins
SmallGrid == 1 <= grid_size /\ grid_size <= 2 * BORDER_MARGIN

\* the sweeps of Stage E and of the desert edge smoothing leave every grid of
\* size n as it is
SweepsChangeNothing(n) ==
    \A g \in [GridCells(n) -> LandTiles] :
        /\ ErodeSweep(g, n) = g
        /\ FillSweep(g, n) = g
        /\ SmoothDesertEdges(g, n) = g

\* C10: for 1 <= grid_size <= 10 generate_map runs to its return: no step
\* indexes a cell outside the grid, none raises, no rock is placed; and for
\* grid_size <= 2 the Stage-E and desert-smoothing sweeps change no cell.
C10_SmallGridsRun ==
    /\ [](SmallGrid =>
            /\ ~indexed_outside
            /\ pc # "raised"
            /\ (Returned \/ ENABLED Next)
            /\ rock_positions = << >>
            /\ RockKeys = {}
            /\ (grid_size <= 2 => SweepsChangeNothing(grid_size)))
    /\ [][(SmallGrid /\ grid_size <= 2 /\ pc \in {"erode", "fill", "desert_smooth"})
            => grid' = grid]_vars

\* a returned map of size 10 with land on it
C10_Witness ==
    /\ Returned
    /\ grid_size = 2 * BORDER_MARGIN
    /\ \E c \in GridCells(grid_size) : grid[c] = "Sand"
    /\ rock_positions = << >>

\* C11: after a left click on a placed Tree or Rock, map_objects has no entry
\* for an object that is no longer in the scene: every key of map_objects is
\* the key of an item of the scene.
C11_ClickDeletesEntry == DOMAIN map_objects \subseteq in_scene

\* a clicked object is out of the scene and its entry is still in map_objects
C11_StaleEntry ==
    /\ Returned
    /\ \E k \in DOMAIN map_objects : k \notin in_scene

\* the stages in the order generate_map calls them
StageOrder == <<"water", "island", "lakes", "beaches", "smooth", "desert", "trees_and_rocks">>

\* the positions of generate_map, in program order; the sub-sweeps of the
\* Stage-E passes are the positions "sweep"
PcOrder ==
    <<"constructed", "water", "island", "lakes", "beaches", "flood", "ring1", "ring2",
      "lake_beach", "smooth", "sweep", "desert", "desert_search", "desert_gap",
      "desert_smooth", "trees", "rocks", "return", "done">>

PcIndex(p) == CHOOSE i \in DOMAIN PcOrder : PcOrder[i] = IF p \in {"erode", "fill"} THEN "sweep" ELSE p

\* what the loop at the current position has left to do: cells to pop and
\* Water cells not enqueued yet, sub-sweeps, attempts
LoopLeft ==
    IF pc = "flood" THEN Cardinality(WaterCells) - Len(ocean_tiles) + Len(queue)
    ELSE IF pc = "erode" THEN 2 * (SMOOTH_PASSES - pass)
    ELSE IF pc = "fill" THEN 2 * (SMOOTH_PASSES - pass) - 1
    ELSE IF pc = "desert_search" THEN DESERT_ATTEMPTS - attempts
    ELSE 0

\* the steps generate_map has left, ordered by position, then by LoopLeft
StepsLeft ==
    (Len(PcOrder) - PcIndex(pc)) * (grid_size * grid_size + DESERT_ATTEMPTS + 2 * SMOOTH_PASSES + 1)
    + LoopLeft

\* C12: the stages run in the order water, island, lakes, beaches, smoothing,
\* desert, trees-and-rocks, each once, and generate_map terminates: nothing
\* raises, no cell is enqueued twice by the flood fill, the search makes at most
\* 50 attempts, and every step leaves fewer steps to do.
C12_StagesInOrderAndTerminates ==
    /\ [](/\ Len(trace) <= Len(StageOrder)
          /\ trace = SubSeq(StageOrder, 1, Len(trace))
          /\ (Returned => trace = StageOrder)
          /\ pc \in SeqToSet(PcOrder) \cup {"erode", "fill"}
          /\ Cardinality(SeqToSet(ocean_tiles)) = Len(ocean_tiles)
          /\ SeqToSet(queue) \subseteq SeqToSet(ocean_tiles)
          /\ attempts <= DESERT_ATTEMPTS
          /\ LoopLeft >= 0)
    /\ [][StepsLeft' < StepsLeft]_vars

\* a returned map with a lake and a desert: the flood fill left Water cells
\* out, the search found a site
C12_Witness ==
    /\ Returned
    /\ trace = StageOrder
    /\ lake_tiles # << >>
    /\ found_start
    /\ desert_cells # {}

\* C13: after Stage A every one of the grid_size x grid_size cells is Water;
\* after Stage B the centre cell is Grass whenever the island radius is at
\* least 2, whatever noise was drawn for it.
C13_WaterThenCentreGrass ==
    /\ pc = "island" =>
          /\ DOMAIN grid = GridCells(grid_size)
          /\ grid_size > 0 => Cardinality(DOMAIN grid) = grid_size * grid_size
          /\ \A c \in DOMAIN grid : grid[c] = "Water"
    /\ (pc = "lakes" /\ IslandRadius(grid_size) >= 2) =>
          Tile(grid, Center(grid_size), Center(grid_size)) = "Grass"

\* Stage B has run on a grid of island radius 2 whose centre cell drew the
\* lowest noise, -1.5
C13_Witness ==
    /\ pc = "lakes"
    /\ IslandRadius(grid_size) = 2
    /\ Unit(seed, Site.IslandNoise, Center(grid_size), Center(grid_size)) = 0
    /\ Tile(grid, Center(grid_size), Center(grid_size)) = "Grass"

\* the interior cells of the grid
InteriorCells == Interior(grid_size) \cap DOMAIN grid

\* the tags of the 8 neighbours of c in g, counted
Around(g, c, t) == Cardinality({d \in Offsets8 : Tile(g, c[1] + d[1], c[2] + d[2]) = t})

\* C14: an interior Sand cell that has at most 2 Sand cells and no Water cell in
\* its 8-neighbourhood when a Stage-E pass begins is Grass when the pass ends.
C14_StraySandEroded ==
    [][pc = "fill" =>
          \A c \in InteriorCells :
              (/\ grid_at_pass[c] = "Sand"
               /\ Around(grid_at_pass, c, "Sand") <= 2
               /\ Around(grid_at_pass, c, "Water") = 0)
              => grid'[c] = "Grass"]_vars

\* a pass has ended on a grid whose centre cell was a Sand cell among 8 Grass
\* cells, and on one whose centre cell had 2 Sand neighbours
C14_Witness ==
    /\ pc = "erode"
    /\ pass = 1
    /\ LET c == <<Center(grid_size), Center(grid_size)>>
       IN  /\ grid_at_smooth[c] = "Sand"
           /\ Around(grid_at_smooth, c, "Sand") = 2
           /\ Around(grid_at_smooth, c, "Grass") = 6
           /\ grid[c] = "Grass"

\* c was an interior Grass cell with exactly 6 Sand and 2 Grass neighbours when
\* Stage E started
SixSandAtStart(c) ==
    /\ grid_at_smooth[c] = "Grass"
    /\ Around(grid_at_smooth, c, "Sand") = 6
    /\ Around(grid_at_smooth, c, "Grass") = 2

RECURSIVE Joined(_)
Joined(S) ==
    LET more == {c \in WaterCells \ S : \E d \in Cardinal4 : <<c[1] + d[1], c[2] + d[2]>> \in S}
    IN  IF more = {} THEN S ELSE Joined(S \cup more)

\* the seeds: the Water cells with x < 5 or y < 5 or x >= grid_size - 5 or y >= grid_size - 5
SeedCells ==
    {c \in WaterCells : c[1] < 5 \/ c[2] < 5 \/ c[1] >= grid_size - 5 \/ c[2] >= grid_size - 5}

\* c has an ocean cell among its diagonal neighbours and none among its N/S/E/W neighbours
TouchesOceanDiagonallyOnly(c) ==
    /\ \E d \in Offsets8 \ Cardinal4 : <<c[1] + d[1], c[2] + d[2]>> \in SeqToSet(ocean_tiles)
    /\ \A d \in Cardinal4 : <<c[1] + d[1], c[2] + d[2]>> \notin SeqToSet(ocean_tiles)

\* C16: when the flood fill and the lake tagging are done, the ocean cells are
\* the seeds and the Water cells joined to a seed by a path of N/S/E/W steps
\* through Water; a Water cell that is no seed and touches ocean cells only
\* diagonally is a lake cell.
C16_FloodIsFourConnected ==
    pc = "ring1" =>
        /\ SeqToSet(ocean_tiles) = Joined(SeedCells)
        /\ \A c \in WaterCells \ SeedCells :
              TouchesOceanDiagonallyOnly(c) => c \in SeqToSet(lake_tiles)

\* a classification with an ocean cell that is no seed, and a lake cell that
\* touches an ocean cell diagonally
C16_Witness ==
    /\ pc = "ring1"
    /\ SeqToSet(ocean_tiles) \ SeedCells # {}
    /\ \E c \in SeqToSet(lake_tiles) : TouchesOceanDiagonallyOnly(c)

\* Stage D has ended and generate_map has not raised
AfterStageD ==
    pc \in {"smooth", "erode", "fill", "desert", "desert_search", "desert_gap", "desert_smooth",
            "trees", "rocks", "return", "done"}

\* the Grass cells with a Water cell in their 8-neighbourhood
GrassAtWater ==
    {c \in DOMAIN grid :
        /\ grid[c] = "Grass"
        /\ \E d \in Offsets8 : Tile(grid, c[1] + d[1], c[2] + d[2]) = "Water"}

\* C17: from the end of Stage D to the grid generate_map hands back, after
\* every sub-sweep of Stage E and every step of the desert stage, no Grass cell
\* has a Water cell, ocean or lake, in its 8-neighbourhood.
C17_BeachesBorderAllWater == AfterStageD => GrassAtWater = {}

\* a returned map with ocean, lakes and Grass, on which the desert stage has
\* placed a blob and run its gap filling and edge smoothing
C17_Witness ==
    /\ Returned
    /\ ocean_tiles # << >>
    /\ lake_tiles # << >>
    /\ found_start
    /\ desert_cells # {}
    /\ grid # grid_at_desert
    /\ \E c \in DOMAIN grid : grid[c] = "Grass"

\* c is a N/S/E/W neighbour of a cell the first ring made Sand
BesideRing1(c) == \E d \in Cardinal4 : <<c[1] + d[1], c[2] + d[2]>> \in ocean_beach_candidates

\* C18: the second ring turns a Grass cell into Sand if and only if the cell is
\* a N/S/E/W neighbour of a first-ring sand cell and has at least 3 Sand cells
\* in its 8-neighbourhood, counted on the grid after the first ring and before
\* any conversion of the second ring or of the lake beaches.
C18_SecondRingRule ==
    [][pc = "ring2" =>
          \A c \in DOMAIN grid :
              grid[c] = "Grass" =>
                  (grid'[c] = "Sand" <=> (BesideRing1(c) /\ Around(grid, c, "Sand") >= 3))]_vars

\* the second ring has run: it made a cell Sand and left a Grass neighbour of
\* a first-ring cell, one with 2 Sand cells around it, as it was
C18_Witness ==
    /\ pc = "lake_beach"
    /\ \E c \in DOMAIN grid : grid[c] = "Sand" /\ c \notin ocean_beach_candidates
    /\ \E c \in DOMAIN grid : grid[c] = "Grass" /\ BesideRing1(c) /\ Around(grid, c, "Sand") = 2

CardinalSand(g, c) == Cardinality({d \in Cardinal4 : Tile(g, c[1] + d[1], c[2] + d[2]) = "Sand"})

\* the erode rule on the 8-neighbourhood of c in g
ErodeRule(g, c) ==
    /\ Around(g, c, "Water") = 0
    /\ \/ Around(g, c, "Sand") <= 2
       \/ (Around(g, c, "Sand") >= 1 /\ CardinalSand(g, c) = 0)
       \/ (Around(g, c, "Sand") = 1 /\ Around(g, c, "Grass") >= 6)

\* C20: the erode sub-sweep turns an interior Sand cell into Grass exactly when
\* the cell has no Water neighbour and has at most 2 Sand neighbours, or has a
\* Sand neighbour but none in a cardinal direction, or has exactly 1 Sand
\* neighbour and at least 6 Grass neighbours.
C20_ErodeRule ==
    [][pc = "erode" =>
          \A c \in InteriorCells :
              grid[c] = "Sand" => (grid'[c] = "Grass" <=> ErodeRule(grid, c))]_vars

\* an erode sub-sweep has turned the centre cell into Grass for its diagonal
\* sand connections alone, 3 Sand neighbours and none in a cardinal direction
C20_Witness ==
    /\ pc = "fill"
    /\ pass = 0
    /\ LET c == <<Center(grid_size), Center(grid_size)>>
       IN  /\ grid_at_pass[c] = "Sand"
           /\ Around(grid_at_pass, c, "Sand") = 3
           /\ CardinalSand(grid_at_pass, c) = 0
           /\ Around(grid_at_pass, c, "Water") = 0
           /\ grid[c] = "Grass"

\* the squared distance of c to the centre cell
CentreDist2(c) == Dist2(c[1], c[2], Center(grid_size), Center(grid_size))

\* the distance of c to the centre is less than 0.4 * grid_size - 1.5
WellInsideIsland(c) == 4 * grid_size - 15 > 0 /\ 100 * CentreDist2(c) < (4 * grid_size - 15) * (4 * grid_size - 15)

\* the distance of c to the centre is at least 0.4 * grid_size + 1.5
WellOutsideIsland(c) == 100 * CentreDist2(c) >= (4 * grid_size + 15) * (4 * grid_size + 15)

\* C21: after Stage B every cell whose distance to the centre is less than
\* 0.4 * grid_size - 1.5 is Grass and every cell whose distance is at least
\* 0.4 * grid_size + 1.5 is still Water.
C21_IslandBounds ==
    pc = "lakes" =>
        \A c \in DOMAIN grid :
            /\ WellInsideIsland(c) => grid[c] = "Grass"
            /\ WellOutsideIsland(c) => grid[c] = "Water"

\* Stage B has left Water a cell that lies less than 0.4 * grid_size - 1.5
\* from the centre: the radius used is int(0.4 * grid_size)
C21_InnerCellLeftWater ==
    /\ pc = "lakes"
    /\ grid_size % 5 # 0
    /\ \E c \in DOMAIN grid : WellInsideIsland(c) /\ grid[c] = "Water"

\* the candidate sampled by attempt k (the attempts counted from 0)
Candidate(k) == <<CandidateX(grid_size, seed, k), CandidateY(grid_size, seed, k)>>

\* the candidate of attempt k is inside the grid, is Grass and has no Water
\* cell in the 13 x 13 window around it, on the grid Stage F was entered with
GoodCandidate(k) ==
    LET c == Candidate(k)
    IN  /\ c \in DOMAIN grid_at_desert
        /\ grid_at_desert[c] = "Grass"
        /\ \A dx \in -6 .. 6, dy \in -6 .. 6 : Tile(grid_at_desert, c[1] + dx, c[2] + dy) # "Water"

\* C22: a desert's centre is the first of at most 50 sampled candidates that is
\* inside the grid, is Grass and has no Water in the 13 x 13 window around it;
\* once it is found no further candidate is drawn.
C22_FirstGoodCandidateWins ==
    /\ [](found_start =>
            /\ attempts \in 1 .. DESERT_ATTEMPTS
            /\ start = Candidate(attempts - 1)
            /\ GoodCandidate(attempts - 1)
            /\ \A k \in 0 .. attempts - 2 : ~GoodCandidate(k))
    /\ [][found_start => (found_start' /\ attempts' = attempts /\ start' = start)]_vars

\* a desert has been placed at a candidate that was not the first one sampled
C22_Witness ==
    /\ found_start
    /\ desert_cells # {}
    /\ attempts >= 2

\* the neighbours of c that are Sand with no Water in their 8-neighbourhood, counted
NonBeachSandAround(g, c) ==
    Cardinality({d \in Offsets8 :
                    /\ Tile(g, c[1] + d[1], c[2] + d[2]) = "Sand"
                    /\ Around(g, <<c[1] + d[1], c[2] + d[2]>>, "Water") = 0})

\* c is Sand of the desert: Stage F made it Sand
DesertSand(c) == grid[c] = "Sand" /\ grid_at_desert[c] # "Sand"

\* C23: the desert edge-smoothing pass turns into Grass only desert Sand cells
\* with no adjacent Water and at most 2 Sand neighbours, turns into Sand only
\* Grass cells with at least 5 non-beach Sand neighbours, and leaves the Sand
\* that is not part of the desert and every other cell as it was.
C23_DesertSmoothingFrame ==
    [][pc = "desert_smooth" =>
          \A c \in DOMAIN grid :
              \/ grid'[c] = grid[c]
              \/ /\ DesertSand(c)
                 /\ grid'[c] = "Grass"
                 /\ Around(grid, c, "Water") = 0
                 /\ Around(grid, c, "Sand") <= 2
              \/ /\ grid[c] = "Grass"
                 /\ grid'[c] = "Sand"
                 /\ NonBeachSandAround(grid, c) >= 5]_vars

\* the smoothing pass has run on a desert among beaches and has changed the grid
C23_Witness ==
    /\ pc = "trees"
    /\ found_start
    /\ \E c \in DOMAIN grid : grid[c] = "Sand" /\ grid_at_desert[c] = "Sand" /\ Around(grid, c, "Water") = 0
    /\ \/ \E c \in desert_cells : grid[c] = "Grass"
       \/ \E c \in DOMAIN grid :
             /\ grid[c] = "Sand"
             /\ grid_at_desert[c] = "Grass"
             /\ c \notin desert_cells \cup ExtraCells(SetCells(grid_at_desert, desert_cells, "Sand"), grid_size, desert_cells)

\* the side of the midlines x = grid_size // 2 and y = grid_size // 2 the cell c lies on
SideOfMidlines(c) == <<c[1] >= grid_size \div 2, c[2] >= grid_size \div 2>>

\* the quadrants that contain an eligible cell
EligibleQuadrants == {SideOfMidlines(c) : c \in Eligible}

\* C24: with k quadrants containing an eligible cell, the first min(3, k) rocks
\* come one from each of min(3, k) different quadrants, so the rocks lie in at
\* least min(3, k) quadrants; further rocks are placed only when fewer than 3
\* quadrants have eligible cells, on eligible cells not chosen before.
C24_RocksSpreadOverQuadrants ==
    pc \in {"return", "done"} =>
        LET eligible == Eligible
            k == Cardinality({SideOfMidlines(c) : c \in eligible})
            first == Min(ROCK_COUNT, k)
        IN  /\ Len(rock_positions) >= first
            /\ Cardinality({SideOfMidlines(rock_positions[j]) : j \in 1 .. first}) = first
            /\ Cardinality({SideOfMidlines(c) : c \in SeqToSet(rock_positions)}) >= first
            /\ Len(rock_positions) > first => k < ROCK_COUNT
            /\ \A j \in (first + 1) .. Len(rock_positions) :
                  /\ rock_positions[j] \in eligible
                  /\ \A i \in 1 .. (j - 1) : rock_positions[i] # rock_positions[j]

\* rocks placed with eligible cells in all four quadrants: three rocks in three
\* quadrants
C24_Witness ==
    /\ Returned
    /\ Cardinality(EligibleQuadrants) = 4
    /\ Len(rock_positions) = ROCK_COUNT
    /\ Cardinality({SideOfMidlines(c) : c \in SeqToSet(rock_positions)}) = ROCK_COUNT

\* the quota filled from the remaining cells: one eligible quadrant, three rocks
C24_WitnessTopUp ==
    /\ Returned
    /\ Cardinality(EligibleQuadrants) < ROCK_COUNT
    /\ Len(rock_positions) > Cardinality(EligibleQuadrants)

\* C25: every Tree of the object map stands on a Grass cell that held no other
\* object when the tree was placed and has no Water cell in its
\* 8-neighbourhood; no tree stands on Sand.
C25_TreesOnDryGrass ==
    pc \in {"rocks", "return", "done"} =>
        \A k \in TreeKeys :
            /\ k \in DOMAIN grid
            /\ grid[k] = "Grass"
            /\ grid[k] # "Sand"
            /\ k \notin overwritten
            /\ Around(grid, k, "Water") = 0

\* a returned map with trees, with a Sand cell away from the water whose draw
\* fell under the ambient tree chance, and with rocks placed after the trees
C25_Witness ==
    /\ Returned
    /\ TreeKeys # {}
    /\ RockKeys # {}
    /\ \E c \in DOMAIN grid :
          /\ grid[c] = "Sand"
          /\ Around(grid, c, "Water") = 0
          /\ 20 * Unit(seed, Site.TreeChance, c[1], c[2]) < 3 * UnitDen

\* Stage C has finished
AfterStageC == pc \notin {"constructed", "water", "island", "lakes"}

\* C26: once the lakes are placed no step turns a cell into Water or turns a
\* Water cell into anything else, so the Water cells of the returned grid are
\* the cells Stage D classified as ocean or lake on the grid Stage C left.
C26_WaterFrozenAfterLakes ==
    /\ [][AfterStageC => \A c \in DOMAIN grid : (grid[c] = "Water") <=> (grid'[c] = "Water")]_vars
    /\ [](Returned => WaterCells = SeqToSet(ocean_tiles) \cup SeqToSet(lake_tiles))

\* a returned map whose grid was changed by the beaches and by the desert
\* stage, next to ocean and lake water
C26_Witness ==
    /\ Returned
    /\ ocean_tiles # << >>
    /\ lake_tiles # << >>
    /\ ocean_beach_candidates # {}
    /\ desert_cells # {}
    /\ map_objects # << >>

\* the in-grid neighbours of the chosen centre
CentreNeighbours == {<<start[1] + d[1], start[2] + d[2]>> : d \in Offsets8} \cap DOMAIN grid

\* C27: when Stage F has found a site, the blob contains the chosen centre,
\* all in-grid neighbours of the centre are Sand when the edge smoothing
\* starts, and the centre is Sand when Stage F ends and in the returned grid.
C27_DesertCentreIsSand ==
    found_start =>
        /\ pc = "desert_gap" => start \in desert_cells
        /\ pc = "desert_smooth" => \A c \in CentreNeighbours : grid[c] = "Sand"
        /\ pc \in {"desert_gap", "desert_smooth", "trees", "rocks", "return", "done"} => grid[start] = "Sand"

\* Stage F has ended with a desert whose edge smoothing turned some cell of the
\* blob back into Grass
C27_Witness ==
    /\ pc = "trees"
    /\ found_start
    /\ grid[start] = "Sand"
    /\ \E c \in desert_cells : grid[c] = "Grass"

\* C28: a cell the erode sub-sweep of a pass turned from Sand into Grass is
\* still Grass after the fill sub-sweep of the same pass.
C28_ErodedCellNotRefilled ==
    [][pc = "fill" =>
          \A c \in InteriorCells :
              (grid_at_pass[c] = "Sand" /\ grid[c] = "Grass") => grid'[c] = "Grass"]_vars

\* the first pass has ended: the centre cell was eroded for its diagonal sand
\* connections, kept 3 Sand neighbours, and is Grass
C28_Witness ==
    /\ pc = "erode"
    /\ pass = 1
    /\ LET c == <<Center(grid_size), Center(grid_size)>>
       IN  /\ grid_at_smooth[c] = "Sand"
           /\ grid[c] = "Grass"
           /\ Around(grid, c, "Sand") >= 3

\* the quadrants in the order of the selection: top-left, top-right,
\* bottom-left, bottom-right
QuadrantOrder == << <<FALSE, FALSE>>, <<TRUE, FALSE>>, <<FALSE, TRUE>>, <<TRUE, TRUE>> >>

\* the quadrants with an eligible cell, in the order of the selection
EligibleInOrder == SelectSeq(QuadrantOrder, LAMBDA q : q \in EligibleQuadrants)

\* C29: the rocks are drawn from the non-empty quadrants in the order top-left,
\* top-right, bottom-left, bottom-right, one each, up to 3; so when the first
\* three quadrants each have an eligible cell no rock lies in the bottom-right
\* quadrant (x >= grid_size // 2 and y >= grid_size // 2).
C29_BottomRightLeftOut ==
    pc \in {"return", "done"} =>
        LET order == EligibleInOrder
        IN  /\ \A j \in 1 .. Min(ROCK_COUNT, Len(order)) :
                  /\ j <= Len(rock_positions)
                  /\ SideOfMidlines(rock_positions[j]) = order[j]
            /\ {QuadrantOrder[1], QuadrantOrder[2], QuadrantOrder[3]} \subseteq SeqToSet(order) =>
                  \A c \in SeqToSet(rock_positions) :
                      ~(c[1] >= grid_size \div 2 /\ c[2] >= grid_size \div 2)

\* rocks placed with eligible cells in all four quadrants, the bottom-right
\* one included: it received none
C29_Witness ==
    /\ Returned
    /\ Len(EligibleInOrder) = 4
    /\ \E c \in Eligible : c[1] >= grid_size \div 2 /\ c[2] >= grid_size \div 2
    /\ rock_positions # << >>
    /\ \A c \in SeqToSet(rock_positions) : SideOfMidlines(c) # <<TRUE, TRUE>>

\* the erode decision for c in g computed without the third branch: the first
\* two cases of the chain, then "keep all sand next to water"
DecisionWithoutThird(g, c) ==
    IF Around(g, c, "Water") > 0 THEN FALSE
    ELSE \/ Around(g, c, "Sand") <= 2
         \/ (CardinalSand(g, c) = 0 /\ Around(g, c, "Sand") > 0)

\* the chain reaches its third branch for c in g and takes it
ThirdBranchTaken(g, c) ==
    /\ ~(Around(g, c, "Sand") <= 2 /\ Around(g, c, "Water") = 0)
    /\ ~(CardinalSand(g, c) = 0 /\ Around(g, c, "Sand") > 0)
    /\ Around(g, c, "Sand") = 1
    /\ Around(g, c, "Grass") >= 6

\* C30: the third erode criterion never decides: the erode sub-sweep turns an
\* interior Sand cell into Grass exactly when the decision computed without
\* that branch says so, and the branch is taken only for cells with a Water
\* neighbour, which the final water check keeps.
C30_ThirdBranchIsDead ==
    [][pc = "erode" =>
          \A c \in InteriorCells :
              grid[c] = "Sand" =>
                  /\ grid'[c] = "Grass" <=> DecisionWithoutThird(grid, c)
                  /\ ThirdBranchTaken(grid, c) => (Around(grid, c, "Water") > 0 /\ grid'[c] = "Sand")]_vars

\* an erode sub-sweep has run on a grid whose centre cell took the third
\* branch: 1 Sand neighbour in a cardinal direction, 6 Grass, 1 Water
C30_Witness ==
    /\ pc = "fill"
    /\ pass = 0
    /\ LET c == <<Center(grid_size), Center(grid_size)>>
       IN  /\ grid_at_pass[c] = "Sand"
           /\ ThirdBranchTaken(grid_at_pass, c)
           /\ Around(grid_at_pass, c, "Water") = 1
           /\ grid[c] = "Sand"

=============================================================================
